---- MODULE Spec2Model ----
(***************************************************************************)
(* Model of tutorials/crowdsourcing/Crowdsourced_Sentiment_Analysis.ipynb: *)
(* the notebook's own logic, cell by cell: the join of the raw crowd       *)
(* answers with the ground truth, the label set `values`, the candidate    *)
(* loop with its train/test split, the vote collection into `wls`, the     *)
(* label matrix L_train, the gold labels, the majority vote `mv` and the   *)
(* accuracy it prints.                                                      *)
(*                                                                         *)
(* Tweets, workers and emotion strings are numbered 1..N.  A tweet has one *)
(* body, so tweet_body is left out of the rows.                            *)
(***************************************************************************)
EXTENDS Integers, Sequences, FiniteSets, TLC

\* ---- bounds of the model ----
NumTweets == 2     \* distinct tweet ids in the two csv files
MaxRows == 2       \* rows of the raw crowd answers
MaxCols == 4       \* columns (workers) of a label matrix given directly
MaxRuns == 2       \* executions of the majority-vote cell

Tweets == 1..NumTweets
\* two workers and two emotion strings: the notebook's logic only ever asks
\* whether two workers, or two labels, are the same
Workers == {1, 2}
Labels == {1, 2}

VARIABLES
    raw_crowd_answers,        \* rows of weather-non-agg-DFE.csv
    verbose_labels,           \* tweet_id -> sentiment of the filtered gold answers
    pc,                       \* the cell (or loop) the notebook is at
    candidate_labeled_tweets, \* the joined rows, as collected
    values,                   \* the label set of the Tweet candidate class
    cands,                    \* the Tweet candidates, in Tweet.id order
    wls,                      \* defaultdict(list): tweet_id -> [(worker_id, emotion)]
    k,                        \* rows of worker_labels the collection loop has consumed
    keys,                     \* the label keys (workers) of L_train's columns
    L_train,                  \* label matrix: one row per training candidate
    train_cand_labels,        \* np.array(gold_labels[0])
    test_cand_labels,         \* np.array(gold_labels[1])
    c,                        \* the Counter of the majority-vote loop
    mv,                       \* majority-vote answers collected so far
    n_correct,
    accuracy,                 \* what the cell printed as "Accuracy:"
    number_incorrect,         \* what the cell printed as "Number incorrect:"
    err,                      \* the exception that ended the run, or "none"
    execution_count,          \* executions of the majority-vote cell
    mv_prev                   \* history: mv of the previous execution of the cell

vars == <<raw_crowd_answers, verbose_labels, pc, candidate_labeled_tweets, values,
          cands, wls, k, keys, L_train, train_cand_labels, test_cand_labels,
          c, mv, n_correct, accuracy, number_incorrect, err, execution_count, mv_prev>>

\* ---- helpers ----
Range(s) == {s[i] : i \in DOMAIN s}

\* the orders in which a collect() may return the elements of a set
Enumerations(S) ==
    {s \in [1..Cardinality(S) -> S] : \A i, j \in 1..Cardinality(S) : s[i] = s[j] => i = j}

SeqsUpTo(S, n) == UNION {[1..m -> S] : m \in 0..n}

\* list.index(x): 0-based position of the first occurrence
ListIndex(s, x) == (CHOOSE i \in 1..Len(s) : s[i] = x /\ \A j \in 1..(i-1) : s[j] # x) - 1

NoAccuracy == [kind |-> "none", num |-> 0, den |-> 0]

\* ---- cell 3: Keep Only the Tweets with Available Groundtruth ----
HasGold(r) == r.tweet_id \in DOMAIN verbose_labels

\* faulty variant: the rows of tweets without ground truth are kept
JoinGold_NoFilter(rows) == rows

JoinGold(rows) == SelectSeq(rows, HasGold)

LoadData ==
    /\ pc = "load" /\ err = "none"
    /\ candidate_labeled_tweets' = JoinGold(raw_crowd_answers)
    /\ pc' = "values"
    /\ UNCHANGED <<raw_crowd_answers, verbose_labels, values, cands, wls, k, keys,
                   L_train, train_cand_labels, test_cand_labels, c, mv, n_correct,
                   accuracy, number_incorrect, err, execution_count, mv_prev>>

\* ---- cell 5: values = distinct emotions, in the order collect() returns them ----
\* faulty variant: the last row's emotion is left out
DistinctEmotions_SkipLast(rows) == {rows[i].emotion : i \in 1..(Len(rows) - 1)}

DistinctEmotions(rows) == {rows[i].emotion : i \in DOMAIN rows}

DefineValues ==
    /\ pc = "values" /\ err = "none"
    /\ values' \in Enumerations(DistinctEmotions(candidate_labeled_tweets))
    /\ pc' = "candidates"
    /\ UNCHANGED <<raw_crowd_answers, verbose_labels, candidate_labeled_tweets, cands,
                   wls, k, keys, L_train, train_cand_labels, test_cand_labels, c, mv,
                   n_correct, accuracy, number_incorrect, err, execution_count, mv_prev>>

\* ---- cell 6: the candidate loop and its split ----
DistinctTweets(rows) == {rows[i].tweet_id : i \in DOMAIN rows}

\* split = 1 if i <= total_tweets*0.1 else 0, i counted from 0
SplitOf(i, total_tweets) == IF 10 * i <= total_tweets THEN 1 ELSE 0

CandidatesOf(tweet_bodies) ==
    [i \in 1..Len(tweet_bodies) |->
        [name |-> tweet_bodies[i], split |-> SplitOf(i - 1, Len(tweet_bodies))]]

CreateCandidates ==
    /\ pc = "candidates" /\ err = "none"
    /\ \E tweet_bodies \in Enumerations(DistinctTweets(candidate_labeled_tweets)) :
           cands' = CandidatesOf(tweet_bodies)
    /\ pc' = "collect"
    /\ UNCHANGED <<raw_crowd_answers, verbose_labels, candidate_labeled_tweets, values,
                   wls, k, keys, L_train, train_cand_labels, test_cand_labels, c, mv,
                   n_correct, accuracy, number_incorrect, err, execution_count, mv_prev>>

\* ---- cell 7: Extract worker votes ----
\* wls[key] of a defaultdict(list): a missing key is inserted with an empty list
DefaultDictGet(d, key) ==
    IF key \in DOMAIN d THEN d ELSE [x \in DOMAIN d \cup {key} |-> IF x = key THEN <<>> ELSE d[x]]

\* faulty variant: a worker's second vote on a tweet is dropped
AppendVote_Dedup(d, row) ==
    LET g == DefaultDictGet(d, row.tweet_id)
    IN  IF \E p \in DOMAIN g[row.tweet_id] : g[row.tweet_id][p][1] = row.worker_id
        THEN g
        ELSE [g EXCEPT ![row.tweet_id] = Append(@, <<row.worker_id, row.emotion>>)]

\* wls[row.tweet_id].append((row.worker_id, row.emotion))
AppendVote(d, row) ==
    LET g == DefaultDictGet(d, row.tweet_id)
    IN  [g EXCEPT ![row.tweet_id] = Append(@, <<row.worker_id, row.emotion>>)]

CollectVote ==
    /\ pc = "collect" /\ err = "none"
    /\ k < Len(candidate_labeled_tweets)
    /\ wls' = AppendVote(wls, candidate_labeled_tweets[k + 1])
    /\ k' = k + 1
    /\ UNCHANGED <<raw_crowd_answers, verbose_labels, pc, candidate_labeled_tweets,
                   values, cands, keys, L_train, train_cand_labels, test_cand_labels,
                   c, mv, n_correct, accuracy, number_incorrect, err, execution_count, mv_prev>>

\* worker_label_generator(t), iterated to its end: reads wls[t.tweet.name]
WorkerLabelGenerator(t) ==
    /\ pc = "collect" /\ err = "none"
    /\ k = Len(candidate_labeled_tweets)
    /\ wls' = DefaultDictGet(wls, t)
    /\ UNCHANGED <<raw_crowd_answers, verbose_labels, pc, candidate_labeled_tweets,
                   values, cands, k, keys, L_train, train_cand_labels, test_cand_labels,
                   c, mv, n_correct, accuracy, number_incorrect, err, execution_count, mv_prev>>

\* ---- cell 7: L_train = labeler.apply(split=0) ----
IsTrain(cand) == cand.split = 0
IsTest(cand) == cand.split = 1

RECURSIVE TouchAll(_, _)
TouchAll(d, cs) ==
    IF cs = <<>> THEN d ELSE TouchAll(DefaultDictGet(d, Head(cs).name), Tail(cs))

\* the label keys in the order the generator first yields them
RECURSIVE FirstSeen(_, _)
FirstSeen(votes, seen) ==
    IF votes = <<>> THEN seen
    ELSE FirstSeen(Tail(votes),
                   IF Head(votes)[1] \in Range(seen) THEN seen ELSE Append(seen, Head(votes)[1]))

RECURSIVE KeyOrder(_, _, _)
KeyOrder(d, cs, seen) ==
    IF cs = <<>> THEN seen
    ELSE KeyOrder(d, Tail(cs), FirstSeen(d[Head(cs).name], seen))

\* a label is stored as its position in values, counted from 1, as for the gold labels
EncodeLabel(vals, label) == ListIndex(vals, label) + 1

VotesOf(votes, worker) == SelectSeq(votes, LAMBDA v : v[1] = worker)

\* one cell of the matrix; 0 is "no label".  A worker yielded twice for one tweet
\* leaves one label in the cell: the first or the last, by the annotator's policy.
CellOf(votes, worker, vals, policy) ==
    LET mine == VotesOf(votes, worker)
    IN  IF mine = <<>> THEN 0
        ELSE IF policy = "first" THEN EncodeLabel(vals, mine[1][2])
        ELSE EncodeLabel(vals, mine[Len(mine)][2])

LabelMatrix(d, cs, ks, vals, policy) ==
    [i \in 1..Len(cs) |-> [j \in 1..Len(ks) |-> CellOf(d[cs[i].name], ks[j], vals, policy)]]

ApplyLabeler ==
    /\ pc = "collect" /\ err = "none"
    /\ k = Len(candidate_labeled_tweets)
    /\ LET train == SelectSeq(cands, IsTrain)
           d == TouchAll(wls, train)
       IN  /\ wls' = d
           /\ keys' = KeyOrder(d, train, <<>>)
           /\ \E policy \in {"first", "last"} :
                  L_train' = LabelMatrix(d, train, keys', values, policy)
    /\ pc' = "gold_labels"
    /\ UNCHANGED <<raw_crowd_answers, verbose_labels, candidate_labeled_tweets, values,
                   cands, k, train_cand_labels, test_cand_labels, c, mv, n_correct,
                   accuracy, number_incorrect, err, execution_count, mv_prev>>

\* ---- cell 8: gold labels, aligned with the Candidate ordering ----
\* verbose_labels[c.tweet.name] finds the key and values.index finds the sentiment
GoldKnown(cand) ==
    /\ cand.name \in DOMAIN verbose_labels
    /\ verbose_labels[cand.name] \in Range(values)

GoldOf(cs) == [i \in 1..Len(cs) |-> ListIndex(values, verbose_labels[cs[i].name]) + 1]

\* for split in range(2): the candidates of split 0, then those of split 1
GoldLookupOrder == SelectSeq(cands, IsTrain) \o SelectSeq(cands, IsTest)

\* the exception of the first lookup that fails: KeyError for a tweet that is no
\* key of verbose_labels, ValueError for a sentiment that is no element of values
GoldLookupError ==
    LET order == GoldLookupOrder
        i == CHOOSE i \in DOMAIN order :
                 /\ ~GoldKnown(order[i])
                 /\ \A j \in 1..(i - 1) : GoldKnown(order[j])
    IN  IF order[i].name \notin DOMAIN verbose_labels THEN "KeyError" ELSE "ValueError"

LoadGoldLabels ==
    /\ pc = "gold_labels" /\ err = "none"
    /\ IF \A i \in DOMAIN cands : GoldKnown(cands[i])
       THEN /\ train_cand_labels' = GoldOf(SelectSeq(cands, IsTrain))
            /\ test_cand_labels' = GoldOf(SelectSeq(cands, IsTest))
            /\ pc' = "majority_vote"
            /\ err' = "none"
       ELSE /\ UNCHANGED <<train_cand_labels, test_cand_labels>>
            /\ pc' = "error"
            /\ err' = GoldLookupError
    /\ UNCHANGED <<raw_crowd_answers, verbose_labels, candidate_labeled_tweets, values,
                   cands, wls, k, keys, L_train, c, mv, n_correct, accuracy, number_incorrect,
                   execution_count, mv_prev>>

\* ---- cell 12: Collect the majority vote answer for each tweet ----
\* [L_train[i,j] for j in L_train[i].nonzero()[1]]: the stored labels of a row,
\* by ascending column
RowVotes(row) == SelectSeq(row, LAMBDA v : v # 0)

\* Counter(list): a dict in insertion order, <<element, count>> per distinct element
CounterAdd(cnt, x) ==
    IF \E p \in DOMAIN cnt : cnt[p][1] = x
    THEN [p \in DOMAIN cnt |-> IF cnt[p][1] = x THEN <<x, cnt[p][2] + 1>> ELSE cnt[p]]
    ELSE Append(cnt, <<x, 1>>)

RECURSIVE CounterUpdate(_, _)
CounterUpdate(cnt, votes) ==
    IF votes = <<>> THEN cnt ELSE CounterUpdate(CounterAdd(cnt, Head(votes)), Tail(votes))

\* faulty variant: one Counter shared by all rows and executions, updated in place
Counter_Shared(votes) == CounterUpdate(c, votes)

Counter(votes) == CounterUpdate(<<>>, votes)

\* faulty variant: the first item of the Counter, whatever its count
MostCommon1_First(cnt) == IF cnt = <<>> THEN <<>> ELSE <<cnt[1]>>

\* faulty variant: an empty Counter answers a default label
MostCommon1_Default(cnt) ==
    IF cnt = <<>> THEN << <<1, 0>> >>
    ELSE LET p == CHOOSE p \in DOMAIN cnt :
                      /\ \A q \in DOMAIN cnt : cnt[q][2] <= cnt[p][2]
                      /\ \A q \in 1..(p - 1) : cnt[q][2] < cnt[p][2]
         IN  <<cnt[p]>>

\* faulty variant: the gold label of the row is answered in place of the most common one
MostCommon1_Gold(cnt) ==
    IF cnt = <<>> THEN <<>> ELSE << <<train_cand_labels[Len(mv) + 1], 0>> >>

\* faulty variant: among the items of highest count, the lowest label
MostCommon1_LowestLabel(cnt) ==
    IF cnt = <<>> THEN <<>>
    ELSE LET p == CHOOSE p \in DOMAIN cnt :
                      /\ \A q \in DOMAIN cnt : cnt[q][2] <= cnt[p][2]
                      /\ \A q \in DOMAIN cnt : cnt[q][2] = cnt[p][2] => cnt[p][1] <= cnt[q][1]
         IN  <<cnt[p]>>

\* c.most_common(1): max over the items by count, the first maximal item in
\* iteration order; the empty list for an empty Counter
MostCommon1(cnt) ==
    IF cnt = <<>> THEN <<>>
    ELSE LET p == CHOOSE p \in DOMAIN cnt :
                      /\ \A q \in DOMAIN cnt : cnt[q][2] <= cnt[p][2]
                      /\ \A q \in 1..(p - 1) : cnt[q][2] < cnt[p][2]
         IN  <<cnt[p]>>

\* mv = []
StartMajorityVote ==
    /\ err = "none"
    /\ \/ pc = "majority_vote"
       \/ pc = "done" /\ execution_count < MaxRuns
    /\ mv_prev' = mv
    /\ mv' = <<>>
    /\ execution_count' = execution_count + 1
    /\ pc' = "mv_loop"
    /\ UNCHANGED <<raw_crowd_answers, verbose_labels, candidate_labeled_tweets, values,
                   cands, wls, k, keys, L_train, train_cand_labels, test_cand_labels,
                   c, n_correct, accuracy, number_incorrect, err>>

\* one iteration of "for i in range(L_train.shape[0])"; [0] of an empty
\* most_common(1) raises IndexError
MajorityVoteStep ==
    /\ pc = "mv_loop" /\ err = "none"
    /\ Len(mv) < Len(L_train)
    /\ c' = Counter(RowVotes(L_train[Len(mv) + 1]))
    /\ IF MostCommon1(c') = <<>>
       THEN /\ err' = "IndexError"
            /\ pc' = "error"
            /\ mv' = mv
       ELSE /\ mv' = Append(mv, MostCommon1(c')[1][1])
            /\ UNCHANGED <<pc, err>>
    /\ UNCHANGED <<raw_crowd_answers, verbose_labels, candidate_labeled_tweets, values,
                   cands, wls, k, keys, L_train, train_cand_labels, test_cand_labels,
                   n_correct, accuracy, number_incorrect, execution_count, mv_prev>>

\* ---- cell 12: Count the number correct by majority vote ----
\* np.sum([1 for i in range(n) if mv[i] == train_cand_labels[i]])
\* faulty variant: the count stops at the first mismatch
RECURSIVE CountCorrect_Break(_, _, _)
CountCorrect_Break(est, truth, n) ==
    IF n = 0 THEN 0
    ELSE LET before == CountCorrect_Break(est, truth, n - 1)
         IN  IF before = n - 1 /\ est[n] = truth[n] THEN before + 1 ELSE before

\* faulty variant: the count starts at one
RECURSIVE CountCorrect_FromOne(_, _, _)
CountCorrect_FromOne(est, truth, n) ==
    IF n = 0 THEN 1
    ELSE CountCorrect_FromOne(est, truth, n - 1) + (IF est[n] = truth[n] THEN 1 ELSE 0)

RECURSIVE CountCorrect(_, _, _)
CountCorrect(est, truth, n) ==
    IF n = 0 THEN 0
    ELSE CountCorrect(est, truth, n - 1) + (IF est[n] = truth[n] THEN 1 ELSE 0)

\* n_correct / float(n): numpy's float division gives nan for 0.0 / 0.0
Divide(num, den) ==
    IF den = 0 THEN [kind |-> "nan", num |-> num, den |-> den]
    ELSE [kind |-> "ratio", num |-> num, den |-> den]

\* faulty variant: every candidate, of either split, counts as compared
ComparedCount_AllCands == Len(cands)

\* float(L_train.shape[0])
ComparedCount == Len(L_train)

Evaluate ==
    /\ pc = "mv_loop" /\ err = "none"
    /\ Len(mv) = Len(L_train)
    /\ n_correct' = CountCorrect(mv, train_cand_labels, Len(L_train))
    /\ accuracy' = Divide(n_correct', ComparedCount)
    /\ number_incorrect' = Len(L_train) - n_correct'
    /\ pc' = "done"
    /\ UNCHANGED <<raw_crowd_answers, verbose_labels, candidate_labeled_tweets, values,
                   cands, wls, k, keys, L_train, train_cand_labels, test_cand_labels,
                   c, mv, err, execution_count, mv_prev>>

\* ---- the notebook, run from the two csv files ----
RawRows == [tweet_id : Tweets, worker_id : Workers, emotion : Labels]

GoldAnswers == UNION {[D -> Labels] : D \in SUBSET Tweets}

EmptyDict == [x \in {} |-> <<>>]

Init ==
    /\ raw_crowd_answers \in SeqsUpTo(RawRows, MaxRows)
    /\ verbose_labels \in GoldAnswers
    /\ pc = "load"
    /\ candidate_labeled_tweets = <<>>
    /\ values = <<>>
    /\ cands = <<>>
    /\ wls = EmptyDict
    /\ k = 0
    /\ keys = <<>>
    /\ L_train = <<>>
    /\ train_cand_labels = <<>>
    /\ test_cand_labels = <<>>
    /\ c = <<>>
    /\ mv = <<>>
    /\ n_correct = 0
    /\ accuracy = NoAccuracy
    /\ number_incorrect = 0
    /\ err = "none"
    /\ execution_count = 0
    /\ mv_prev = <<>>

Next ==
    \/ LoadData
    \/ DefineValues
    \/ CreateCandidates
    \/ CollectVote
    \/ \E t \in Tweets : WorkerLabelGenerator(t)
    \/ ApplyLabeler
    \/ LoadGoldLabels
    \/ StartMajorityVote
    \/ MajorityVoteStep
    \/ Evaluate

Spec == Init /\ [][Next]_vars

\* ---- the majority-vote cell on any label matrix and gold labels ----
MatrixRows == [1..MaxCols -> {0} \cup Labels]

InitMV ==
    /\ L_train \in SeqsUpTo(MatrixRows, 2)
    /\ train_cand_labels \in [1..Len(L_train) -> Labels]
    /\ pc = "majority_vote"
    /\ raw_crowd_answers = <<>>
    /\ verbose_labels = EmptyDict
    /\ candidate_labeled_tweets = <<>>
    /\ values = <<>>
    /\ cands = <<>>
    /\ wls = EmptyDict
    /\ k = 0
    /\ keys = <<>>
    /\ test_cand_labels = <<>>
    /\ c = <<>>
    /\ mv = <<>>
    /\ n_correct = 0
    /\ accuracy = NoAccuracy
    /\ number_incorrect = 0
    /\ err = "none"
    /\ execution_count = 0
    /\ mv_prev = <<>>

NextMV ==
    \/ StartMajorityVote
    \/ MajorityVoteStep
    \/ Evaluate

SpecMV == InitMV /\ [][NextMV]_vars

(***************************************************************************)
(* Properties                                                              *)
(***************************************************************************)
DictList(d, t) == IF t \in DOMAIN d THEN d[t] ELSE <<>>

\* the (worker_id, emotion) pairs of tweet t among rows, in the order of rows
ProjectVotes(rows, t) ==
    LET sel == SelectSeq(rows, LAMBDA r : r.tweet_id = t)
    IN  [i \in 1..Len(sel) |-> <<sel[i].worker_id, sel[i].emotion>>]

RECURSIVE TotalStored(_, _)
TotalStored(d, S) ==
    IF S = {} THEN 0
    ELSE LET t == CHOOSE t \in S : TRUE IN Len(d[t]) + TotalStored(d, S \ {t})

CollectionDone == pc \notin {"load", "values", "candidates"} /\ k = Len(candidate_labeled_tweets)

CountIn(votes, x) == Len(SelectSeq(votes, LAMBDA v : v = x))

\* C1: after the first k rows of worker_labels, wls holds for every tweet exactly
\* the (worker_id, emotion) pairs of that tweet's rows, in input order and with
\* their multiplicity, and the number of stored pairs is k (after the loop: all).
C1_VoteCollection ==
    /\ \A t \in Tweets :
           DictList(wls, t) = ProjectVotes(SubSeq(candidate_labeled_tweets, 1, k), t)
    /\ TotalStored(wls, DOMAIN wls) = k

\* the loop has ended and a (tweet, worker) pair that occurs twice is stored twice
C1_Witness ==
    /\ CollectionDone
    /\ k >= 2
    /\ \E t \in DOMAIN wls : \E p, q \in DOMAIN wls[t] : p < q /\ wls[t][p][1] = wls[t][q][1]

\* C2: every label appended to mv occurs among the votes of its row and no label
\* of the row has more votes; a row of one label repeated n times yields that label.
C2_Plurality ==
    \A i \in 1..Len(mv) :
        LET votes == RowVotes(L_train[i])
        IN  /\ mv[i] \in Range(votes)
            /\ \A x \in Range(votes) : CountIn(votes, x) <= CountIn(votes, mv[i])

\* a row whose second label in list order is the strict majority, and a row of one
\* label repeated three times
C2_Witness ==
    /\ pc = "done"
    /\ \E i \in 1..Len(mv) :
           LET votes == RowVotes(L_train[i])
           IN  /\ Len(votes) = 3
               /\ votes[1] # mv[i]
               /\ CountIn(votes, mv[i]) = 2
    /\ \E i \in 1..Len(mv) :
           LET votes == RowVotes(L_train[i])
           IN  Len(votes) = 3 /\ Range(votes) = {mv[i]}

\* the training candidates and the estimate (as an emotion) of each
TrainCands == SelectSeq(cands, IsTrain)
EstimatedTweets == {TrainCands[i].name : i \in 1..Len(mv)}
EstimateOf(t) == values[mv[CHOOSE i \in 1..Len(mv) : TrainCands[i].name = t]]
ComparedTweets == EstimatedTweets \cap DOMAIN verbose_labels

C4_Inv ==
    \A i \in 1..Len(L_train) :
        RowVotes(L_train[i]) = <<>> =>
            /\ Len(mv) < i
            /\ pc # "done"
            /\ accuracy.kind = "none"

C4_Step ==
    (/\ pc = "mv_loop"
     /\ Len(mv) < Len(L_train)
     /\ RowVotes(L_train[Len(mv) + 1]) = <<>>)
        => (err' = "IndexError" /\ pc' = "error" /\ mv' = mv /\ accuracy' = accuracy)

C4_NoVotes == []C4_Inv /\ [][C4_Step]_vars

\* the run ended with IndexError at the second row, after one label was appended
C4_Witness ==
    /\ err = "IndexError"
    /\ Len(mv) = 1
    /\ RowVotes(L_train[2]) = <<>>

\* C5: with no row to compare, the cell prints no accuracy and signals an error.
C5_NoComparableData ==
    (pc = "done" /\ Len(L_train) = 0) => (accuracy.kind = "none" /\ err # "none")

\* C6 as stated: a raw vote whose label is not in the (non-empty) values makes
\* the collection end with a "label not in known set" condition.
UnknownLabelVotes ==
    {i \in DOMAIN raw_crowd_answers : raw_crowd_answers[i].emotion \notin Range(values)}

C6_Rejected ==
    (CollectionDone /\ values # <<>> /\ UnknownLabelVotes # {}) => err = "LabelNotInKnownSet"

\* C6, amended: no vote with a label outside values is stored in wls or counted:
\* every stored label is in values and every matrix entry and estimate is the
\* position of a label in values; nothing is rejected.
C6_NeverStored ==
    pc \notin {"load", "values"} =>
        /\ \A t \in DOMAIN wls : \A p \in DOMAIN wls[t] : wls[t][p][2] \in Range(values)
        /\ \A i \in DOMAIN L_train : \A j \in DOMAIN L_train[i] : L_train[i][j] \in 0..Len(values)
        /\ \A i \in DOMAIN mv : mv[i] \in 1..Len(values)
        /\ err # "LabelNotInKnownSet"

\* the loop has ended with votes stored while a raw vote had a label outside values
C6_Witness ==
    /\ CollectionDone
    /\ UnknownLabelVotes # {}
    /\ \E t \in DOMAIN wls : wls[t] # <<>>

\* C7: once the collection loop has ended, the keys of wls are the tweets that
\* occur in worker_labels.
C7_KeysHaveVotes ==
    CollectionDone => DOMAIN wls = DistinctTweets(candidate_labeled_tweets)

\* C8: rows with the same vote list get the same label, ties included, and a
\* second execution of the cell gives every row the label of the first.
C8_Deterministic ==
    /\ \A i, j \in 1..Len(mv) :
           RowVotes(L_train[i]) = RowVotes(L_train[j]) => mv[i] = mv[j]
    /\ execution_count >= 2 => \A i \in 1..Len(mv) : mv[i] = mv_prev[i]

\* the second execution has ended; two different rows hold the same tied vote list
C8_Witness ==
    /\ pc = "done" /\ execution_count = 2 /\ Len(mv) = 2
    /\ L_train[1] # L_train[2]
    /\ RowVotes(L_train[1]) = RowVotes(L_train[2])
    /\ \E x, y \in Labels :
           /\ x # y
           /\ CountIn(RowVotes(L_train[1]), x) = CountIn(RowVotes(L_train[1]), y)
           /\ CountIn(RowVotes(L_train[1]), x) > 0

\* C9: values, wls, L_train and mv are what the worker votes of the candidate
\* tweets alone determine: none of them reads a ground-truth label.
C9_GoldNotUsed ==
    /\ pc \notin {"load", "values"} =>
           /\ Range(values) = DistinctEmotions(candidate_labeled_tweets)
           /\ Len(values) = Cardinality(DistinctEmotions(candidate_labeled_tweets))
    /\ \A t \in Tweets :
           DictList(wls, t) = ProjectVotes(SubSeq(candidate_labeled_tweets, 1, k), t)
    /\ pc \in {"gold_labels", "majority_vote", "mv_loop", "done", "error"} =>
           /\ keys = KeyOrder(wls, TrainCands, <<>>)
           /\ \E policy \in {"first", "last"} :
                  L_train = LabelMatrix(wls, TrainCands, keys, values, policy)
    /\ \A i \in 1..Len(mv) :
           LET cnt == CounterUpdate(<<>>, RowVotes(L_train[i]))
           IN  /\ \E p \in DOMAIN cnt : cnt[p][1] = mv[i]
               /\ \A p \in DOMAIN cnt :
                      \/ cnt[p][2] < CountIn(RowVotes(L_train[i]), mv[i])
                      \/ cnt[p][2] = CountIn(RowVotes(L_train[i]), mv[i])
                         /\ \E q \in 1..p : cnt[q][1] = mv[i]

\* the estimate of a training tweet differs from its ground truth
C9_Witness ==
    /\ pc = "done"
    /\ Len(mv) >= 1
    /\ n_correct = 0

\* C10: the number correct and the accuracy are the same for every order in which
\* the rows (estimate and gold label together) are enumerated.
RowOrders(n) == {p \in [1..n -> 1..n] : \A i, j \in 1..n : p[i] = p[j] => i = j}

Permuted(s, p) == [i \in DOMAIN p |-> s[p[i]]]

C10_OrderInvariant ==
    pc = "done" =>
        \A p \in RowOrders(Len(mv)) :
            LET nc == CountCorrect(Permuted(mv, p), Permuted(train_cand_labels, p), Len(mv))
            IN  /\ nc = n_correct
                /\ Divide(nc, Len(mv)) = accuracy

\* two rows, one estimated correctly and one not
C10_Witness ==
    /\ pc = "done"
    /\ Len(mv) = 2
    /\ mv[1] = train_cand_labels[1]
    /\ mv[2] # train_cand_labels[2]

\* C11: when at least one row is compared, the accuracy is a ratio in [0,1]:
\* 0 <= n_correct <= rows compared, and the number incorrect printed is rows
\* compared minus n_correct and is not negative.
C11_AccuracyInUnitInterval ==
    (pc = "done" /\ Len(L_train) >= 1) =>
        /\ accuracy.kind = "ratio"
        /\ accuracy.den = Len(L_train)
        /\ accuracy.num = n_correct
        /\ 0 <= accuracy.num /\ accuracy.num <= accuracy.den
        /\ number_incorrect = Len(L_train) - n_correct
        /\ number_incorrect >= 0

\* both ends of the interval: a run with every row correct, after a row count of
\* two, and the printed number incorrect is zero
C11_Witness ==
    /\ pc = "done"
    /\ Len(L_train) = 2
    /\ accuracy = [kind |-> "ratio", num |-> 2, den |-> 2]
    /\ number_incorrect = 0

\* C12: every candidate, of either split, is a key of verbose_labels and, once
\* the votes are collected, has at least one vote in wls; the gold-label lookup
\* never raises KeyError; and when the evaluation is done every training
\* candidate has a row, an estimate and a gold label.
C12_DataModel ==
    /\ \A i \in DOMAIN cands :
           /\ cands[i].split \in {0, 1}
           /\ cands[i].name \in DOMAIN verbose_labels
           /\ CollectionDone => DictList(wls, cands[i].name) # <<>>
    /\ err # "KeyError"
    /\ pc = "done" =>
           /\ Len(L_train) = Len(TrainCands)
           /\ Len(mv) = Len(TrainCands)
           /\ Len(train_cand_labels) = Len(TrainCands)

\* the evaluation is done with a candidate in each split
C12_Witness ==
    /\ pc = "done"
    /\ Len(mv) >= 1
    /\ \E i \in DOMAIN cands : cands[i].split = 1
    /\ Len(test_cand_labels) >= 1

\* two vote lists that are permutations of each other
SameBag(a, b) == Len(a) = Len(b) /\ \A x \in Labels : CountIn(a, x) = CountIn(b, x)

\* the labels of highest count in a vote list
TopLabels(votes) ==
    {x \in Range(votes) : \A y \in Range(votes) : CountIn(votes, y) <= CountIn(votes, x)}

FirstPos(votes, x) == CHOOSE p \in DOMAIN votes : votes[p] = x /\ \A q \in 1..(p - 1) : votes[q] # x

\* the position at which label x gets its n-th vote
ReachPos(votes, x, n) ==
    CHOOSE p \in DOMAIN votes : votes[p] = x /\ CountIn(SubSeq(votes, 1, p), x) = n

\* C13 as stated: two rows whose vote lists are permutations of each other get
\* the same estimate.
C13_OrderInsignificant ==
    \A i, j \in 1..Len(mv) :
        SameBag(RowVotes(L_train[i]), RowVotes(L_train[j])) => mv[i] = mv[j]

\* C13, amended: two rows whose vote lists are permutations of each other get the
\* same estimate when one label has strictly more votes than every other.
C13_OrderInsignificantWithoutTie ==
    \A i, j \in 1..Len(mv) :
        (/\ SameBag(RowVotes(L_train[i]), RowVotes(L_train[j]))
         /\ Cardinality(TopLabels(RowVotes(L_train[i]))) = 1)
            => mv[i] = mv[j]

\* two rows with the same votes in another order, starting with different labels,
\* one label having the strict majority
C13_Witness ==
    /\ pc = "done" /\ Len(mv) = 2
    /\ SameBag(RowVotes(L_train[1]), RowVotes(L_train[2]))
    /\ Cardinality(TopLabels(RowVotes(L_train[1]))) = 1
    /\ Cardinality(Range(RowVotes(L_train[1]))) = 2
    /\ RowVotes(L_train[1])[1] # RowVotes(L_train[2])[1]

\* C15: the estimate is a label of highest count and, among the labels of highest
\* count, the one whose first vote comes first in the row.
C15_TieBreak ==
    \A i \in 1..Len(mv) :
        LET votes == RowVotes(L_train[i])
        IN  /\ mv[i] \in TopLabels(votes)
            /\ \A x \in TopLabels(votes) \ {mv[i]} : FirstPos(votes, mv[i]) < FirstPos(votes, x)

\* a tie in which the estimate is neither the lowest label nor the label that
\* reaches the highest count first
C15_Witness ==
    /\ pc = "done"
    /\ \E i \in 1..Len(mv) :
           LET votes == RowVotes(L_train[i])
               n == CountIn(votes, mv[i])
           IN  \E x \in TopLabels(votes) :
                   /\ x < mv[i]
                   /\ ReachPos(votes, x, n) < ReachPos(votes, mv[i], n)

\* C14: with N candidates in enumeration order, every candidate has one split in
\* {0, 1}; the first floor(0.1 * N) are the test split (1) and the others the
\* training split (0).
C14_TenPercentSplit ==
    \A i \in DOMAIN cands :
        /\ cands[i].split \in {0, 1}
        /\ cands[i].split = (IF i <= Len(cands) \div 10 THEN 1 ELSE 0)

====
